---- MODULE Spec2Model ----
(***************************************************************************)
(* ezlatexdoc: the lexer (src/src/lex.rs), the node builder and directive  *)
(* decoder (src/src/parse.rs) and the processor (src/src/process.rs,       *)
(* src/src/util.rs).                                                        *)
(*                                                                         *)
(* A text is a sequence of characters, each character a one-element        *)
(* string.  The tokens of TomlTokens stand for a whole run of ordinary     *)
(* characters holding one TOML key/value pair (S1 is src_output = "f1");   *)
(* every lexer rule treats such a run as it treats one ordinary            *)
(* character, because none of its characters is % \ CR LF and its first    *)
(* and last characters are not blank.                                      *)
(***************************************************************************)
EXTENDS Integers, Sequences, FiniteSets, TLC

VARIABLES
    input,       \* the text of the document
    pc,          \* where the run is
    frags,       \* the fragments the lexer's fold consumed
    chunks,      \* the lexer's result
    unconsumed,  \* the input the lexer left (dropped by parse_document)
    nodes,       \* the node builder's result
    pos,         \* the index of the next node of process_document's loop
    result,      \* what process_document returned
    fin,         \* what finish returned
    src, doc,    \* Process.src, Process.doc
    src_output,  \* Process.src_output: None or the name of the open file
    doc_output,  \* Process.doc_output
    fs,          \* the file system: name -> [exists, content]
    fs0          \* the file system before the run

vars == <<input, pc, frags, chunks, unconsumed, nodes, pos, result, fin,
          src, doc, src_output, doc_output, fs, fs0>>

----------------------------------------------------------------------------
(* Characters                                                              *)

PCT == "%"
BANG == "!"
BSL == "\\"
LF == "\n"
CR == "\r"
SP == " "
TAB == "\t"

\* lex.rs:22-25
DIRECTIVE_TAG == <<PCT, PCT, PCT>>
DOC_TAG == <<PCT, PCT>>
PRESERVED_COMMENT_TAG == <<PCT, BANG>>
EOL_COMMENT_TAG == PCT

None == "None"

Drop(s, n) == SubSeq(s, n + 1, Len(s))
Take(s, n) == SubSeq(s, 1, n)
StartsWith(s, t) == Len(s) >= Len(t) /\ Take(s, Len(t)) = t

----------------------------------------------------------------------------
(* nom's parsers and combinators, as used by lex.rs.  A parser's result is *)
(* a record: ok, and len, the number of characters it consumed.            *)

Fail == [ok |-> FALSE, len |-> 0]
Done(n) == [ok |-> TRUE, len |-> n]

\* branch::alt of two parsers: the second is tried when the first fails.
Alt(a, b) == IF a.ok THEN a ELSE b

\* character::complete::line_ending: "\n" or "\r\n"
line_ending(i) ==
    IF StartsWith(i, <<LF>>) THEN Done(1)
    ELSE IF StartsWith(i, <<CR, LF>>) THEN Done(2)
    ELSE Fail

\* not(anychar)
eof(i) == IF i = <<>> THEN Done(0) ELSE Fail

line_ending_or_eof(i) == Alt(line_ending(i), eof(i))

\* The index before the first CR or LF.
RECURSIVE FirstEol(_)
FirstEol(i) ==
    IF i = <<>> \/ i[1] \in {CR, LF} THEN 0 ELSE 1 + FirstEol(Tail(i))

\* character::complete::not_line_ending: up to the first CR or LF (at n + 1);
\* a CR that does not start "\r\n" is an error.
not_line_ending_at(i, n) ==
    IF n < Len(i) /\ i[n + 1] = CR /\ ~StartsWith(Drop(i, n), <<CR, LF>>)
    THEN Fail
    ELSE Done(n)

not_line_ending(i) == not_line_ending_at(i, FirstEol(i))

\* character::complete::multispace0: spaces, tabs, carriage returns and line feeds
RECURSIVE multispace0(_)
multispace0(i) ==
    IF i # <<>> /\ i[1] \in {SP, TAB, CR, LF} THEN 1 + multispace0(Tail(i)) ELSE 0

----------------------------------------------------------------------------
(* lex.rs: source text                                                     *)

\* An escape that takes any character after the backslash, a line ending too.
escaped_any(i) ==
    IF Len(i) >= 2 /\ i[1] = BSL THEN Done(2) ELSE Fail

\* recognize(pair(char('\\'), none_of("\r\n")))
escaped(i) ==
    IF Len(i) >= 2 /\ i[1] = BSL /\ i[2] \notin {CR, LF} THEN Done(2) ELSE Fail

\* many1(alt((none_of("%\\\r\n"), escaped))): the length of the longest match,
\* 0 when there is none.
RECURSIVE non_comment_len(_)
non_comment_len(i) ==
    IF i # <<>> /\ i[1] \notin {PCT, BSL, CR, LF}
    THEN 1 + non_comment_len(Tail(i))
    ELSE IF escaped(i).ok
         THEN 2 + non_comment_len(Drop(i, 2))
         ELSE 0

\* many1 fails when nothing matched.
Many1(n) == IF n > 0 THEN Done(n) ELSE Fail

non_comment(i) == Many1(non_comment_len(i))

\* separated_nonempty_list(line_ending, non_comment), after its first element:
\* a separator is consumed only when an element follows it.
RECURSIVE source_lines_len(_)
source_lines_step(i, sep, nxt) ==
    IF sep.ok /\ nxt.ok
    THEN sep.len + nxt.len + source_lines_len(Drop(i, sep.len + nxt.len))
    ELSE 0

source_lines_len(i) ==
    source_lines_step(i, line_ending(i), non_comment(Drop(i, line_ending(i).len)))

\* The length separated_nonempty_list recognizes, 0 when its first element fails.
separated_source_len(i, first) ==
    IF first.ok THEN first.len + source_lines_len(Drop(i, first.len)) ELSE 0

Source(text) == [type |-> "Source", kind |-> None, text |-> text]
Comment(kind, text) == [type |-> "Comment", kind |-> kind, text |-> text]

\* The result of a chunk parser: ok, len and the chunks it yields.
NoChunks == [ok |-> FALSE, len |-> 0, out |-> <<>>]

\* map(recognize(...), Chunk::Source)
source_chunk(i, n) ==
    IF n > 0 THEN [ok |-> TRUE, len |-> n, out |-> <<Source(Take(i, n))>>]
    ELSE NoChunks

non_comment_chunk(i) == source_chunk(i, separated_source_len(i, non_comment(i)))

----------------------------------------------------------------------------
(* lex.rs: comment tags                                                    *)

NoTag == [ok |-> FALSE, len |-> 0, kind |-> None]
Tag(kind, n) == [ok |-> TRUE, len |-> n, kind |-> kind]

directive_tag(i) ==
    IF StartsWith(i, DIRECTIVE_TAG) THEN Tag("Directive", 3) ELSE NoTag

documentation_tag(i) ==
    IF StartsWith(i, DOC_TAG) THEN Tag("Documentation", 2) ELSE NoTag

preserved_tag(i) ==
    IF StartsWith(i, PRESERVED_COMMENT_TAG) THEN Tag("Preserved", 2) ELSE NoTag

eol_tag(i) ==
    IF StartsWith(i, <<EOL_COMMENT_TAG>>) THEN Tag("Eol", 1) ELSE NoTag

inline_comment_tag(i) == Alt(preserved_tag(i), eol_tag(i))

only_sol_comment_tag(i) == Alt(directive_tag(i), documentation_tag(i))

\* The alternatives in the wrong order: the one-character tag is tried first.
any_comment_tag_eol_first(i) == Alt(inline_comment_tag(i), only_sol_comment_tag(i))

any_comment_tag(i) == Alt(only_sol_comment_tag(i), inline_comment_tag(i))

----------------------------------------------------------------------------
(* lex.rs: comments                                                        *)

IsSpace(c) == c \in {SP, TAB, CR, LF}

\* str::trim_start
RECURSIVE trim_start(_)
trim_start(s) ==
    IF s # <<>> /\ IsSpace(s[1]) THEN trim_start(Tail(s)) ELSE s

\* Comment::trimmed
trimmed(c) == Comment(c.kind, trim_start(c.text))

\* The result of a comment parser: ok, len and the comment.
NoComment == [ok |-> FALSE, len |-> 0, out |-> Comment(None, <<>>)]

\* pair(tag, not_line_ending) mapped to Comment { kind, text }
comment_of(i, t, body) ==
    IF t.ok /\ body.ok
    THEN [ok |-> TRUE, len |-> t.len + body.len,
          out |-> Comment(t.kind, SubSeq(i, t.len + 1, t.len + body.len))]
    ELSE NoComment

tagged_comment(i, t) == comment_of(i, t, not_line_ending(Drop(i, t.len)))

\* preceded(not(only_sol_comment_tag), ...)
inline_comment(i) ==
    IF only_sol_comment_tag(i).ok THEN NoComment
    ELSE tagged_comment(i, inline_comment_tag(i))

\* map(inline_comment, |c| Chunk::Comment(c.trimmed()))
trimmed_chunk(c) ==
    IF c.ok THEN [ok |-> TRUE, len |-> c.len, out |-> <<trimmed(c.out)>>]
    ELSE NoChunks

inline_comment_chunk(i) == trimmed_chunk(inline_comment(i))

any_comment(i) == tagged_comment(i, any_comment_tag(i))

\* The unindent crate (unindent::unindent), used by collapse_comments.
\* The index of the first LF of s, 0 when there is none.
RECURSIVE FirstLF(_)
FirstLF(s) ==
    IF s = <<>> THEN 0
    ELSE IF s[1] = LF THEN 1
    ELSE IF FirstLF(Tail(s)) = 0 THEN 0
    ELSE 1 + FirstLF(Tail(s))

RECURSIVE SplitLF(_)
split_at(s, n) ==
    IF n = 0 THEN <<s>> ELSE <<Take(s, n - 1)>> \o SplitLF(Drop(s, n))

\* The text split at every LF.
SplitLF(s) == split_at(s, FirstLF(s))

\* unindent's lines(): a final empty fragment is dropped.
drop_last_empty(fr) ==
    IF fr[Len(fr)] = <<>> THEN Take(fr, Len(fr) - 1) ELSE fr

unindent_lines(s) == drop_last_empty(SplitLF(s))

\* count_spaces: the index of the first character that is no space or tab,
\* -1 (None) for a line of spaces and tabs only.
RECURSIVE leading_blanks(_)
leading_blanks(line) ==
    IF line # <<>> /\ line[1] \in {SP, TAB} THEN 1 + leading_blanks(Tail(line)) ELSE 0

count_spaces(line) ==
    IF leading_blanks(line) = Len(line) THEN -1 ELSE leading_blanks(line)

RECURSIVE Concat(_)
Concat(ss) == IF ss = <<>> THEN <<>> ELSE Head(ss) \o Concat(Tail(ss))

SetMin(S) == CHOOSE m \in S : \A n \in S : m <= n

\* The spaces unindent removes: the least count_spaces of the lines after the
\* first, 0 when none has one.
min_spaces(counts) == IF counts = {} THEN 0 ELSE SetMin(counts)

unindent_spaces(ls) ==
    min_spaces({count_spaces(ls[k]) : k \in 2..Len(ls)} \ {-1})

\* What unindent writes for line k (from 1).
unindent_piece(ls, k, ignore_first_line, spaces) ==
    (IF k > 2 \/ (k = 2 /\ ~ignore_first_line) THEN <<LF>> ELSE <<>>)
    \o (IF k = 1 THEN ls[k]
        ELSE IF Len(ls[k]) > spaces THEN Drop(ls[k], spaces)
        ELSE <<>>)

unindent_of(ls, ignore_first_line, spaces) ==
    Concat([k \in 1..Len(ls) |-> unindent_piece(ls, k, ignore_first_line, spaces)])

unindent_with(s, ls) ==
    unindent_of(ls, StartsWith(s, <<LF>>) \/ StartsWith(s, <<CR, LF>>),
                unindent_spaces(ls))

unindent(s) == unindent_with(s, unindent_lines(s))

\* Display for Comment: writeln!(f, "{}", self.text)
comment_display(c) == c.text \o <<LF>>

\* itertools group_by(|c| c.kind): the length of the first group
RECURSIVE group_len(_)
group_len(cs) ==
    IF Len(cs) >= 2 /\ cs[2].kind = cs[1].kind THEN 1 + group_len(Tail(cs)) ELSE 1

\* One group of collapse_comments: unindent(&format!("\n{}", &group.join("")))
collapse_group(g) ==
    Comment(g[1].kind,
            unindent(<<LF>> \o Concat([k \in 1..Len(g) |-> comment_display(g[k])])))

RECURSIVE collapse_groups(_)
collapse_groups_at(cs, n) ==
    <<collapse_group(Take(cs, n))>> \o collapse_groups(Drop(cs, n))

collapse_groups(cs) ==
    IF cs = <<>> THEN <<>> ELSE collapse_groups_at(cs, group_len(cs))

collapse_comments(comments) ==
    IF Len(comments) = 0 THEN <<>>
    ELSE IF Len(comments) = 1 THEN <<trimmed(comments[1])>>
    ELSE collapse_groups(comments)

\* separated_nonempty_list(pair(line_ending, multispace0), any_comment), after
\* its first element: [len, out], the further comments and their length.  A
\* separator is consumed only when a comment follows it.
NoMore == [len |-> 0, out |-> <<>>]

RECURSIVE more_comments(_)
more_comments_cons(n, c, more) ==
    [len |-> n + more.len, out |-> <<c.out>> \o more.out]

more_comments_elem(i, sep, c) ==
    IF c.ok
    THEN more_comments_cons(sep + c.len, c, more_comments(Drop(i, sep + c.len)))
    ELSE NoMore

more_comments_sep(i, sep) == more_comments_elem(i, sep, any_comment(Drop(i, sep)))

more_comments_le(i, le) ==
    IF le.ok THEN more_comments_sep(i, le.len + multispace0(Drop(i, le.len)))
    ELSE NoMore

more_comments(i) == more_comments_le(i, line_ending(i))

\* map(separated_nonempty_list(...), collapse_comments)
block_of(first, more) ==
    [ok |-> TRUE, len |-> first.len + more.len,
     out |-> collapse_comments(<<first.out>> \o more.out)]

block_from(i, first) ==
    IF first.ok THEN block_of(first, more_comments(Drop(i, first.len))) ELSE NoChunks

any_comment_block(i) == block_from(i, any_comment(i))

\* The comments are already chunks here (Chunk::Comment).
any_comment_chunk(i) == any_comment_block(i)

----------------------------------------------------------------------------
(* lex.rs: fragments and the document                                      *)

\* The result of parse_document_fragment: ok, len, the chunks and the optional
\* inline comment chunk (a sequence of at most one chunk).
NoFragment == [ok |-> FALSE, len |-> 0, chunks |-> <<>>, maybe |-> <<>>]

\* terminated(..., line_ending_or_eof)
terminated(n, cs, maybe, e) ==
    IF e.ok THEN [ok |-> TRUE, len |-> n + e.len, chunks |-> cs, maybe |-> maybe]
    ELSE NoFragment

\* pair(non_comment, opt(inline_comment)): opt turns a failure into None.
source_with_comment(i, s, c) ==
    terminated(s.len + c.len, s.out, c.out, line_ending_or_eof(Drop(i, s.len + c.len)))

source_from(i, s) ==
    IF s.ok THEN source_with_comment(i, s, inline_comment_chunk(Drop(i, s.len)))
    ELSE NoFragment

\* terminated(pair(non_comment, opt(inline_comment)), line_ending_or_eof)
source_fragment(i) == source_from(i, non_comment_chunk(i))

comments_from(i, b) ==
    IF b.ok THEN terminated(b.len, b.out, <<>>, line_ending_or_eof(Drop(i, b.len)))
    ELSE NoFragment

\* map(terminated(any_comments, line_ending_or_eof), |comments| (comments, None))
comment_fragment(i) == comments_from(i, any_comment_chunk(i))

parse_document_fragment(i) == Alt(source_fragment(i), comment_fragment(i))

\* The fragments fold_many0 folds over, each with the text it consumed; the
\* fold stops, successfully, at the first position where no fragment matches.
RECURSIVE fragments_of(_)
fragments_from(i, f) ==
    IF f.ok /\ f.len > 0
    THEN <<[consumed |-> Take(i, f.len), chunks |-> f.chunks, maybe |-> f.maybe]>>
         \o fragments_of(Drop(i, f.len))
    ELSE <<>>

fragments_of(i) == fragments_from(i, parse_document_fragment(i))

\* fold_many0's accumulator, acc.extend(chunks); acc.extend(maybe_chunk), and
\* the input that is left.
folded(i, fr) ==
    [rest |-> Drop(i, Len(Concat([k \in 1..Len(fr) |-> fr[k].consumed]))),
     out |-> Concat([k \in 1..Len(fr) |-> fr[k].chunks \o fr[k].maybe]),
     frags |-> fr]

parse_document_greedy(i) == folded(i, fragments_of(i))

\* lex.rs parse_document (imported by parse.rs as lex_document):
\* Ok(complete(parse_document_greedy)(input)?.1).  complete() only turns
\* Incomplete into an error, and no parser here is a streaming one: the result
\* is always Ok, and the remaining input (.0) is dropped.
lex_result(g) == [ok |-> TRUE, rest |-> g.rest, out |-> g.out, frags |-> g.frags]

lex_document(i) == lex_result(parse_document_greedy(i))

----------------------------------------------------------------------------
(* parse.rs: the directive decoder and the node builder                    *)

FileNames == {"f1", "f2"}

\* One token is one well-formed TOML key/value line.
TomlTokens == {"S1", "S2", "D1", "D2", "U"}

TomlEntry(tok) ==
    CASE tok = "S1" -> [key |-> "src_output", val |-> "f1"]
      [] tok = "S2" -> [key |-> "src_output", val |-> "f2"]
      [] tok = "D1" -> [key |-> "doc_output", val |-> "f1"]
      [] tok = "D2" -> [key |-> "doc_output", val |-> "f2"]
      [] tok = "U" -> [key |-> "unknown", val |-> "f1"]

RECURSIVE trim_end(_)
trim_end(s) ==
    IF s # <<>> /\ IsSpace(s[Len(s)]) THEN trim_end(Take(s, Len(s) - 1)) ELSE s

\* The lines of a TOML text that are not blank, without the blanks around them.
NonBlank(ls) ==
    SelectSeq([k \in 1..Len(ls) |-> trim_end(trim_start(ls[k]))], LAMBDA l : l # <<>>)

TomlLines(text) == NonBlank(SplitLF(text))

\* The text is TOML: every line that is not blank is one key/value pair, and no
\* key is given twice.
WellFormedLines(ls) ==
    /\ \A k \in 1..Len(ls) : Len(ls[k]) = 1 /\ ls[k][1] \in TomlTokens
    /\ \A j, k \in 1..Len(ls) :
           j # k => TomlEntry(ls[j][1]).key # TomlEntry(ls[k][1]).key

TomlWellFormed(text) == WellFormedLines(TomlLines(text))

ValueOf(vals) == IF vals = {} THEN None ELSE CHOOSE v \in vals : TRUE

ValueIn(ls, key) ==
    ValueOf({TomlEntry(ls[k][1]).val : k \in {j \in 1..Len(ls) : TomlEntry(ls[j][1]).key = key}})

\* The value the text gives the key, None when it does not name the key.
TomlValue(text, key) == ValueIn(TomlLines(text), key)

\* toml::from_str into Directives, with #[serde(deny_unknown_fields)]
toml_from_str_deny_unknown(text) ==
    IF TomlWellFormed(text) /\ TomlValue(text, "unknown") = None
    THEN [ok |-> TRUE, src_output |-> TomlValue(text, "src_output"),
          doc_output |-> TomlValue(text, "doc_output")]
    ELSE [ok |-> FALSE, src_output |-> None, doc_output |-> None]

\* toml::from_str into Directives { src_output: Option<String>, doc_output:
\* Option<String> }: the derived Deserialize skips a key that is no field.
toml_from_str(text) ==
    IF TomlWellFormed(text)
    THEN [ok |-> TRUE, src_output |-> TomlValue(text, "src_output"),
          doc_output |-> TomlValue(text, "doc_output")]
    ELSE [ok |-> FALSE, src_output |-> None, doc_output |-> None]

Node(type, text) ==
    [type |-> type, text |-> text, src_output |-> None, doc_output |-> None]

Directives(d) ==
    [type |-> "Directives", text |-> <<>>,
     src_output |-> d.src_output, doc_output |-> d.doc_output]

\* The match of parse_document's loop, for a chunk that decodes.
node_of(chunk) ==
    IF chunk.type = "Source" THEN Node("Source", chunk.text)
    ELSE CASE chunk.kind = "Directive" -> Directives(toml_from_str(chunk.text))
           [] chunk.kind = "Documentation" -> Node("Documentation", chunk.text)
           [] chunk.kind = "Preserved" -> Node("PreservedComment", chunk.text)
           [] chunk.kind = "Eol" -> Node("Comment", <<>>)

decodes(chunk) ==
    chunk.type = "Comment" /\ chunk.kind = "Directive" => toml_from_str(chunk.text).ok

\* A builder that hands back, with the error, the nodes of the chunks before
\* the first one that does not decode.
build_nodes_keeping_prefix(l, cs) ==
    IF \A k \in 1..Len(cs) : decodes(cs[k])
    THEN [ok |-> TRUE, err |-> None, lexed |-> l,
          nodes |-> [k \in 1..Len(cs) |-> node_of(cs[k])]]
    ELSE [ok |-> FALSE, err |-> "DirectivesParseToml", lexed |-> l,
          nodes |-> [k \in 1..(CHOOSE j \in 1..Len(cs) :
                                   /\ ~decodes(cs[j])
                                   /\ \A m \in 1..j - 1 : decodes(cs[m])) - 1
                         |-> node_of(cs[k])]]

\* parse.rs parse_document: the first chunk that does not decode returns the
\* error, and the nodes built so far are dropped with it.
build_nodes(l, cs) ==
    IF \A k \in 1..Len(cs) : decodes(cs[k])
    THEN [ok |-> TRUE, err |-> None, lexed |-> l,
          nodes |-> [k \in 1..Len(cs) |-> node_of(cs[k])]]
    ELSE [ok |-> FALSE, err |-> "DirectivesParseToml", lexed |-> l, nodes |-> <<>>]

nodes_of(l) == build_nodes(l, l.out)

parse_document(i) == nodes_of(lex_document(i))

----------------------------------------------------------------------------
(* util.rs and process.rs: the processor                                   *)

Absent == [exists |-> FALSE, content |-> <<>>]

\* An open that creates or truncates: create(true).truncate(true).
open_new_truncating(fsys, path) ==
    [ok |-> TRUE, fs |-> [fsys EXCEPT ![path] = [exists |-> TRUE, content |-> <<>>]]]

\* OpenOptions::new().write(true).create_new(true).open(path)
open_new(fsys, path) ==
    IF fsys[path].exists
    THEN [ok |-> FALSE, fs |-> fsys]
    ELSE [ok |-> TRUE, fs |-> [fsys EXCEPT ![path] = [exists |-> TRUE, content |-> <<>>]]]

\* A write that starts the file again.
write_from_start(fsys, file, text) ==
    [fsys EXCEPT ![file].content = text]

\* write!(file, "{}", text) on the open file: the text goes after what the
\* handle wrote before.
write(fsys, file, text) ==
    [fsys EXCEPT ![file].content = @ \o text]

\* What process formats for a node.
render(node) ==
    CASE node.type = "Source" -> node.text
      [] node.type = "PreservedComment" -> <<PCT, SP>> \o node.text \o <<LF>>
      [] node.type = "Comment" -> <<PCT, LF>>
      [] node.type = "Documentation" -> node.text
      [] OTHER -> <<>>

SrcStream == {"Source", "PreservedComment", "Comment"}
DocStream == {"Documentation"}

Outcome(res, s, d, fsys) ==
    [res |-> res, src_output |-> s, doc_output |-> d, fs |-> fsys]

\* The Directives arm: src_output first, then doc_output; a failed open
\* returns before its assignment.
open_field(name, fsys) ==
    IF name # None THEN open_new(fsys, name) ELSE [ok |-> TRUE, fs |-> fsys]

\* An assignment made whether or not the directive names the field.
rebound_always(name, old) == name

rebound(name, old) == IF name # None THEN name ELSE old

directives_doc(node, s1, d, o2) ==
    IF ~o2.ok THEN Outcome("FileOpen", s1, d, o2.fs)
    ELSE Outcome("Ok", s1, rebound(node.doc_output, d), o2.fs)

\* A Directives arm that opens both files before it assigns either handle,
\* and leaves no trace when one of the opens fails.
directives_src_atomic(node, s, d, fsys, o1) ==
    IF ~o1.ok \/ ~open_field(node.doc_output, o1.fs).ok
    THEN Outcome("FileOpen", s, d, fsys)
    ELSE Outcome("Ok", rebound(node.src_output, s), rebound(node.doc_output, d),
                 open_field(node.doc_output, o1.fs).fs)

directives_src(node, s, d, fsys, o1) ==
    IF ~o1.ok THEN Outcome("FileOpen", s, d, fsys)
    ELSE directives_doc(node, rebound(node.src_output, s), d,
                        open_field(node.doc_output, o1.fs))

process_directives(node, s, d, fsys) ==
    directives_src(node, s, d, fsys, open_field(node.src_output, fsys))

\* Process::process.  expect() on an unbound handle panics.
process(node, s, d, fsys) ==
    IF node.type \in SrcStream
    THEN IF s = None THEN Outcome("panic", s, d, fsys)
         ELSE Outcome("Ok", s, d, write(fsys, s, render(node)))
    ELSE IF node.type \in DocStream
    THEN IF d = None THEN Outcome("panic", s, d, fsys)
         ELSE Outcome("Ok", s, d, write(fsys, d, render(node)))
    ELSE process_directives(node, s, d, fsys)

\* A finish that asks for a handle only when its buffer holds text.
finish_lenient(s, d, sbuf, dbuf, fsys) ==
    [res |-> IF (s = None /\ sbuf # <<>>) \/ (d = None /\ dbuf # <<>>)
             THEN "NoOutput" ELSE "Ok",
     fs |-> fsys]

\* Process::finish: each handle is asked for before its buffer is written.
finish(s, d, sbuf, dbuf, fsys) ==
    IF s = None THEN [res |-> "NoOutput", fs |-> fsys]
    ELSE IF d = None THEN [res |-> "NoOutput", fs |-> write(fsys, s, sbuf)]
    ELSE [res |-> "Ok", fs |-> write(write(fsys, s, sbuf), d, dbuf)]

----------------------------------------------------------------------------
(* The inputs                                                              *)

MaxLen == 4
MaxLexLines == 3
MaxLines == 4

RECURSIVE JoinLF(_)
JoinLF(ls) ==
    IF ls = <<>> THEN <<>>
    ELSE IF Len(ls) = 1 THEN ls[1]
    ELSE ls[1] \o <<LF>> \o JoinLF(Tail(ls))

TextsOf(lines, n) ==
    {JoinLF(ls) : ls \in UNION {[1..k -> lines] : k \in 0..n}}

\* The characters the lexer tells apart; "a" is any ordinary character.
LexAlphabet == {PCT, BANG, BSL, LF, SP, "a"}

LexLines ==
    { <<>>,
      <<"a">>,
      <<"a", PCT, "a">>,
      <<"a", PCT, BANG>>,
      <<"a", PCT, PCT>>,
      <<PCT>>,
      <<PCT, SP>>,
      <<PCT, BANG, SP, "a">>,
      <<PCT, PCT, SP, "a">>,
      <<PCT, PCT, SP, SP, "a">>,
      <<PCT, PCT, PCT, "a">>,
      <<SP, PCT, PCT, PCT>> }

LexInputs ==
    UNION {[1..k -> LexAlphabet] : k \in 0..MaxLen} \cup TextsOf(LexLines, MaxLexLines)

DocLines ==
    { <<>>,
      <<"a">>,
      <<PCT>>,
      <<PCT, BANG, "a">>,
      <<PCT, PCT, "a">>,
      <<PCT, PCT, PCT, "S1">>,
      <<PCT, PCT, PCT, "S2">>,
      <<PCT, PCT, PCT, "D1">>,
      <<PCT, PCT, PCT, "U">> }

Documents == TextsOf(DocLines, MaxLines)

\* The files that exist before the run, each holding "x".
PreExisting == {{}, {"f1"}}

FsWith(names) ==
    [f \in FileNames |->
        IF f \in names THEN [exists |-> TRUE, content |-> <<"x">>] ELSE Absent]

----------------------------------------------------------------------------
(* The run of one document: main.rs Run::process, then finish              *)

\* Process::default
ProcessDefault ==
    /\ src = <<>> /\ doc = <<>>
    /\ src_output = None /\ doc_output = None

NothingRead ==
    /\ frags = <<>> /\ chunks = <<>> /\ unconsumed = <<>>
    /\ nodes = <<>> /\ pos = 1 /\ result = None /\ fin = None

Init ==
    /\ input \in Documents
    /\ fs \in {FsWith(names) : names \in PreExisting}
    /\ fs0 = fs
    /\ pc = "start"
    /\ NothingRead
    /\ ProcessDefault

Lexed(l) ==
    /\ frags' = l.frags
    /\ chunks' = l.out
    /\ unconsumed' = l.rest

\* process_document, up to its loop: parse::parse_document(input)?
Parsed(r) ==
    /\ Lexed(r.lexed)
    /\ nodes' = r.nodes
    /\ result' = IF ~r.ok THEN r.err
                 ELSE IF r.nodes = <<>> THEN "Ok" ELSE None
    /\ pc' = IF r.ok /\ r.nodes # <<>> THEN "processing" ELSE "returned"

ParseDocument ==
    /\ pc = "start"
    /\ Parsed(parse_document(input))
    /\ UNCHANGED <<input, pos, fin, src, doc, src_output, doc_output, fs, fs0>>

\* One turn of process_document's loop: self.process(node)?
Processed(r) ==
    /\ src_output' = r.src_output
    /\ doc_output' = r.doc_output
    /\ fs' = r.fs
    /\ pos' = IF r.res = "Ok" THEN pos + 1 ELSE pos
    /\ result' = IF r.res # "Ok" THEN r.res
                 ELSE IF pos = Len(nodes) THEN "Ok" ELSE None
    /\ pc' = IF r.res = "panic" THEN "panicked"
             ELSE IF r.res # "Ok" \/ pos = Len(nodes) THEN "returned"
             ELSE "processing"

ProcessNext ==
    /\ pc = "processing"
    /\ Processed(process(nodes[pos], src_output, doc_output, fs))
    /\ UNCHANGED <<input, frags, chunks, unconsumed, nodes, fin, src, doc, fs0>>

\* Process::finish, called once process_document has returned
Finished(r) ==
    /\ fin' = r.res
    /\ fs' = r.fs
    /\ pc' = "finished"

Finish ==
    /\ pc = "returned"
    /\ Finished(finish(src_output, doc_output, src, doc, fs))
    /\ UNCHANGED <<input, frags, chunks, unconsumed, nodes, pos, result,
                   src, doc, src_output, doc_output, fs0>>

Next == ParseDocument \/ ProcessNext \/ Finish

Spec == Init /\ [][Next]_vars

----------------------------------------------------------------------------
(* The lexer alone, over every short text                                  *)

InitLex ==
    /\ input \in LexInputs
    /\ fs = FsWith({})
    /\ fs0 = fs
    /\ pc = "lex"
    /\ NothingRead
    /\ ProcessDefault

\* lex.rs parse_document
LexDocument ==
    /\ pc = "lex"
    /\ Lexed(lex_document(input))
    /\ pc' = "lexed"
    /\ UNCHANGED <<input, nodes, pos, result, fin, src, doc, src_output, doc_output,
                   fs, fs0>>

NextLex == LexDocument

SpecLex == InitLex /\ [][NextLex]_vars

----------------------------------------------------------------------------
(* Claims about the lexer's totality and the processor                     *)

\* C1: for every input the lexer either returns chunks that account for the
\* whole input, or returns a lex error; it never returns success with input
\* left unconsumed.
C1_LexIsTotal ==
    pc = "lexed" =>
        \/ ~lex_document(input).ok
        \/ /\ unconsumed = <<>>
           /\ Concat([k \in 1..Len(frags) |-> frags[k].consumed]) = input

\* C2: processing a source-stream node (Source, PreservedComment, Comment)
\* while src_output was never bound returns Error::NoOutput to the caller.
C2_UnboundSourceReturnsNoOutput ==
    [][(/\ pc = "processing"
        /\ nodes[pos].type \in SrcStream
        /\ src_output = None)
       => (pc' = "returned" /\ result' = "NoOutput")]_vars

\* The destination the last Directives node before node k binds the field to.
NamedBy(node, field) ==
    IF node.type # "Directives" THEN None
    ELSE IF field = "src" THEN node.src_output ELSE node.doc_output

RECURSIVE BindingBefore(_, _)
BindingBefore(field, k) ==
    IF k <= 1 THEN None
    ELSE IF NamedBy(nodes[k - 1], field) # None THEN NamedBy(nodes[k - 1], field)
    ELSE BindingBefore(field, k - 1)

StreamOf(node) ==
    IF node.type \in SrcStream THEN "src"
    ELSE IF node.type \in DocStream THEN "doc" ELSE None

\* The renderings, in document order, of the nodes among the first n that
\* were processed while f was the binding of their stream.
RECURSIVE RoutedTo(_, _)
RoutedTo(f, n) ==
    IF n = 0 THEN <<>>
    ELSE RoutedTo(f, n - 1)
         \o (IF StreamOf(nodes[n]) # None /\ BindingBefore(StreamOf(nodes[n]), n) = f
             THEN render(nodes[n]) ELSE <<>>)

\* C3: a destination holds exactly the in-order concatenation of the
\* renderings of the nodes of a stream that were processed while it was that
\* stream's binding, whatever the number of rebindings.
C3_RoutedInOrder ==
    pc \in {"processing", "returned", "panicked", "finished"} =>
        \A f \in FileNames : fs[f].content = fs0[f].content \o RoutedTo(f, pos - 1)

\* C3: a document that rebinds src_output and writes source text to both
\* destinations has been processed.
C3_Witness ==
    /\ pc = "returned" /\ result = "Ok"
    /\ src_output = "f2"
    /\ fs["f1"].content # <<>> /\ ~fs0["f1"].exists
    /\ fs["f2"].content # <<>>
    /\ \A k \in 1..Len(nodes) : nodes[k].doc_output = None

\* The name a step's Directives node gives a field exists when the field is
\* opened: it existed before the step, or the step's src_output just created it.
ExistsAtOpen(field) ==
    /\ pc = "processing"
    /\ nodes[pos].type = "Directives"
    /\ NamedBy(nodes[pos], field) # None
    /\ \/ fs[NamedBy(nodes[pos], field)].exists
       \/ field = "doc" /\ nodes[pos].src_output = nodes[pos].doc_output

\* C4: a Directives node naming a destination that exists fails with
\* Error::FileOpen, the destination's content is left as it was and the handle
\* of that field keeps its binding; a file that existed before the run is
\* never changed.
C4_ExistingDestinationFails ==
    [][/\ ExistsAtOpen("src") =>
            /\ pc' = "returned" /\ result' = "FileOpen"
            /\ fs'[nodes[pos].src_output].content = fs[nodes[pos].src_output].content
            /\ src_output' = src_output
       /\ ExistsAtOpen("doc") =>
            /\ pc' = "returned" /\ result' = "FileOpen"
            /\ fs'[nodes[pos].doc_output].content = fs[nodes[pos].doc_output].content
            /\ doc_output' = doc_output
       /\ \A f \in FileNames : fs0[f].exists => fs'[f] = fs0[f]]_vars

\* C4: a directive named a file that existed before the run while src_output
\* was bound to another file.
C4_Witness ==
    /\ pc = "returned" /\ result = "FileOpen"
    /\ nodes[pos].src_output = "f1" /\ fs0["f1"].exists
    /\ src_output = "f2"
    /\ fs["f2"].content # <<>>

\* C4: one directive named the same new file for both fields.
C4_WitnessSameName ==
    /\ pc = "returned" /\ result = "FileOpen"
    /\ nodes[pos].src_output = "f1" /\ nodes[pos].doc_output = "f1"
    /\ ~fs0["f1"].exists

----------------------------------------------------------------------------
(* Claims about the directive decoder, finish and preserved comments       *)

IsDirective(chunk) == chunk.type = "Comment" /\ chunk.kind = "Directive"

\* The key/value pairs a directive text holds, one per line that is a pair.
PairsOf(text) ==
    {TomlEntry(l[1]) : l \in {m \in {TomlLines(text)[k] : k \in 1..Len(TomlLines(text))} :
                                 Len(m) = 1 /\ m[1] \in TomlTokens}}

HasUnknownKey(text) ==
    \E p \in PairsOf(text) : p.key \notin {"src_output", "doc_output"}

\* Every line of the text is a pair or blank, and no key is given twice.
IsToml(text) ==
    /\ \A k \in 1..Len(TomlLines(text)) :
           Len(TomlLines(text)[k]) = 1 /\ TomlLines(text)[k][1] \in TomlTokens
    /\ \A j, k \in 1..Len(TomlLines(text)) :
           TomlLines(text)[j] = TomlLines(text)[k] => j = k
    /\ \A p, q \in PairsOf(text) : p.key = q.key => p = q

GivenFor(text, key) ==
    IF \E p \in PairsOf(text) : p.key = key
    THEN (CHOOSE p \in PairsOf(text) : p.key = key).val
    ELSE None

\* C5 as claimed: a Directive chunk whose text holds a key other than
\* src_output and doc_output fails with Error::DirectivesParseToml, and no
\* node is produced.
C5_UnknownKeyRejected ==
    (pc # "start" /\ \E k \in 1..Len(chunks) :
                        IsDirective(chunks[k]) /\ HasUnknownKey(chunks[k].text))
    => (nodes = <<>> /\ pc \in {"returned", "finished"}
        /\ result = "DirectivesParseToml")

\* C5 as amended: a key other than src_output and doc_output is skipped.  When
\* every Directive chunk is TOML the builder returns one node per chunk, a
\* Directive chunk giving a Directives node with the values its text has for
\* src_output and doc_output; Error::DirectivesParseToml is returned exactly
\* when some Directive chunk is not TOML.
C5_UnknownKeyIgnored ==
    pc # "start" =>
        IF \A k \in 1..Len(chunks) : IsDirective(chunks[k]) => IsToml(chunks[k].text)
        THEN /\ Len(nodes) = Len(chunks)
             /\ pc = "returned" => result # "DirectivesParseToml"
             /\ \A k \in 1..Len(chunks) :
                    IsDirective(chunks[k]) =>
                        /\ nodes[k].type = "Directives"
                        /\ nodes[k].src_output = GivenFor(chunks[k].text, "src_output")
                        /\ nodes[k].doc_output = GivenFor(chunks[k].text, "doc_output")
        ELSE nodes = <<>> /\ result = "DirectivesParseToml"

\* C5: a directive block holding an unknown key and src_output was decoded.
C5_Witness ==
    /\ pc # "start"
    /\ \E k \in 1..Len(nodes) :
           /\ IsDirective(chunks[k]) /\ HasUnknownKey(chunks[k].text)
           /\ nodes[k].type = "Directives" /\ nodes[k].src_output = "f1"

\* C6 as claimed: finish returns Error::NoOutput only when a destination is
\* unbound and its buffer holds text; with both buffers empty it succeeds.
C6_NoOutputOnlyWithBufferedText ==
    pc = "finished" =>
        /\ fin = "NoOutput" =>
               \/ src_output = None /\ src # <<>>
               \/ doc_output = None /\ doc # <<>>
        /\ (src = <<>> /\ doc = <<>>) => fin = "Ok"

\* C6 as amended: finish returns Error::NoOutput exactly when src_output or
\* doc_output is unbound, whatever the buffers hold (process never writes to
\* them: they are empty); with both bound it succeeds, and each buffer has
\* been written to the end of its destination.
C6_NoOutputWhenUnbound ==
    [][(pc = "returned" /\ pc' = "finished") =>
        /\ src = <<>> /\ doc = <<>>
        /\ fin' = IF src_output = None \/ doc_output = None THEN "NoOutput" ELSE "Ok"
        /\ fin' = "Ok" =>
               /\ fs'[src_output].content = fs[src_output].content \o src
               /\ fs'[doc_output].content = fs[doc_output].content \o doc
        /\ src_output' = src_output /\ doc_output' = doc_output]_vars

\* C6: finish failed with both buffers empty and only src_output bound.
C6_Witness ==
    /\ pc = "finished" /\ fin = "NoOutput"
    /\ src = <<>> /\ doc = <<>>
    /\ src_output # None /\ doc_output = None

\* The physical lines of a written text: a final line ending ends the last
\* line, it starts no further one.
PhysicalLines(text) == drop_last_empty(SplitLF(text))

\* What the step appended to file f.
Appended(f) == Drop(fs'[f].content, Len(fs[f].content))

\* C7: the text process appends for a PreservedComment node is a real
\* comment: every physical line begins with %, the first with "% " followed
\* by the text, and the text ends with a line ending.
C7_PreservedIsComment ==
    [][(/\ pc = "processing"
        /\ nodes[pos].type = "PreservedComment"
        /\ src_output # None)
       => /\ StartsWith(Appended(src_output), <<PCT, SP>>)
          /\ Appended(src_output)[Len(Appended(src_output))] = LF
          /\ \A k \in 1..Len(PhysicalLines(Appended(src_output))) :
                 StartsWith(PhysicalLines(Appended(src_output))[k], <<PCT>>)]_vars

----------------------------------------------------------------------------
(* Claims about the lexer's comments and escapes                           *)

IsCommentFragment(f) == f.chunks[1].type = "Comment"

IsSourceFragment(f) == f.chunks[1].type = "Source"

\* The comment lines of a start-of-line block, each from its tag on: the
\* text is split at its line endings, and blank lines and the blanks before a
\* tag are left out.
BlockLines(text) ==
    SelectSeq([k \in 1..Len(SplitLF(text)) |-> trim_start(SplitLF(text)[k])],
              LAMBDA l : l # <<>>)

\* The kind of the longest tag the line starts with.
LongestTag(line) ==
    IF Len(line) >= 3 /\ line[1] = PCT /\ line[2] = PCT /\ line[3] = PCT THEN "Directive"
    ELSE IF Len(line) >= 2 /\ line[1] = PCT /\ line[2] = PCT THEN "Documentation"
    ELSE IF Len(line) >= 2 /\ line[1] = PCT /\ line[2] = BANG THEN "Preserved"
    ELSE IF Len(line) >= 1 /\ line[1] = PCT THEN "Eol"
    ELSE None

LongestTagLen(line) ==
    CASE LongestTag(line) = "Directive" -> 3
      [] LongestTag(line) \in {"Documentation", "Preserved"} -> 2
      [] OTHER -> 1

\* The number of lines at the head of ls that have the kind of the first.
RECURSIVE RunLen(_)
RunLen(ls) ==
    IF Len(ls) >= 2 /\ LongestTag(ls[2]) = LongestTag(ls[1])
    THEN 1 + RunLen(Tail(ls))
    ELSE 1

\* The kinds of the maximal runs of ls, in order.
RECURSIVE RunKinds(_)
RunKinds(ls) ==
    IF ls = <<>> THEN <<>>
    ELSE <<LongestTag(ls[1])>> \o RunKinds(Drop(ls, RunLen(ls)))

KindsOf(cs) == [k \in 1..Len(cs) |-> cs[k].kind]

\* C8: a start-of-line comment has the kind of the longest tag at the tag
\* position (so the chunks of a block have the kinds of the runs of its lines'
\* longest tags), and an inline comment is Preserved when the source text is
\* followed by %!, Eol otherwise, never Directive or Documentation.
C8_LongestTagWins ==
    pc = "lexed" =>
        \A n \in 1..Len(frags) :
            /\ IsCommentFragment(frags[n]) =>
                   /\ frags[n].maybe = <<>>
                   /\ \A k \in 1..Len(frags[n].chunks) :
                          frags[n].chunks[k].type = "Comment"
                   /\ KindsOf(frags[n].chunks) = RunKinds(BlockLines(frags[n].consumed))
            /\ (IsSourceFragment(frags[n]) /\ frags[n].maybe # <<>>) =>
                   /\ Len(frags[n].maybe) = 1
                   /\ frags[n].maybe[1].type = "Comment"
                   /\ frags[n].maybe[1].kind \in {"Preserved", "Eol"}
                   /\ frags[n].maybe[1].kind =
                          LongestTag(Drop(frags[n].consumed, Len(frags[n].chunks[1].text)))

\* C8: an inline comment was lexed, and so was a block that starts with a
\* Directive line and holds a line of another kind.
C8_Witness ==
    /\ pc = "lexed"
    /\ \E n \in 1..Len(frags) : IsSourceFragment(frags[n]) /\ frags[n].maybe # <<>>
    /\ \E n \in 1..Len(frags) :
           /\ IsCommentFragment(frags[n])
           /\ Len(frags[n].chunks) >= 2
           /\ frags[n].chunks[1].kind = "Directive"

\* What a comment line holds after its tag.
BodyOf(line) == Drop(line, LongestTagLen(line))

RECURSIVE BlanksBefore(_)
BlanksBefore(s) ==
    IF s # <<>> /\ s[1] \in {SP, TAB} THEN 1 + BlanksBefore(Tail(s)) ELSE 0

\* The indentation the bodies of a run have in common: the least number of
\* leading blanks of a body that is not blank, 0 when every body is blank.
CommonIndent(run) ==
    IF \A k \in 1..Len(run) : BlanksBefore(BodyOf(run[k])) = Len(BodyOf(run[k]))
    THEN 0
    ELSE CHOOSE m \in 0..MaxLen + 8 :
        /\ \E k \in 1..Len(run) :
               /\ BlanksBefore(BodyOf(run[k])) # Len(BodyOf(run[k]))
               /\ BlanksBefore(BodyOf(run[k])) = m
        /\ \A k \in 1..Len(run) :
               BlanksBefore(BodyOf(run[k])) # Len(BodyOf(run[k]))
                   => BlanksBefore(BodyOf(run[k])) >= m

Outdent(body, m) == IF Len(body) > m THEN Drop(body, m) ELSE <<>>

\* The text of a run: its bodies without the common indentation, joined by
\* line endings.
RunText(run) ==
    JoinLF([k \in 1..Len(run) |-> Outdent(BodyOf(run[k]), CommonIndent(run))])

RECURSIVE RunTexts(_)
RunTexts(ls) ==
    IF ls = <<>> THEN <<>>
    ELSE <<RunText(Take(ls, RunLen(ls)))>> \o RunTexts(Drop(ls, RunLen(ls)))

TextsIn(cs) == [k \in 1..Len(cs) |-> cs[k].text]

\* C9: in a start-of-line block each maximal run of lines of one kind gives
\* one chunk of that kind, in order, whose text is the bodies of the run
\* joined by line endings with their common indentation removed.
C9_OneChunkPerRun ==
    pc = "lexed" =>
        \A n \in 1..Len(frags) :
            IsCommentFragment(frags[n]) =>
                /\ KindsOf(frags[n].chunks) = RunKinds(BlockLines(frags[n].consumed))
                /\ TextsIn(frags[n].chunks) = RunTexts(BlockLines(frags[n].consumed))

\* The number of backslashes that stand right before position k of s.
RECURSIVE BackslashRun(_, _)
BackslashRun(s, k) ==
    IF k > 1 /\ s[k - 1] = BSL THEN 1 + BackslashRun(s, k - 1) ELSE 0

\* Position k of s is the second character of an escape.
IsEscapedAt(s, k) == BackslashRun(s, k) % 2 = 1

\* C10: the text of a Source chunk is the input verbatim; every % in it is the
\* escaped character of a backslash escape, every backslash that starts an
\* escape is followed, in the chunk, by a character that is no line ending;
\* and an inline comment starts at a % that is not escaped.  So \% is one
\* Source chunk, and \\% is the Source chunk \\ and an Eol comment.
C10_EscapeIsAtomic ==
    pc = "lexed" =>
        /\ \A n \in 1..Len(frags) :
               IsSourceFragment(frags[n]) =>
                   /\ Len(frags[n].chunks) = 1
                   /\ frags[n].chunks[1].text # <<>>
                   /\ frags[n].chunks[1].text =
                          Take(frags[n].consumed, Len(frags[n].chunks[1].text))
                   /\ \A k \in 1..Len(frags[n].chunks[1].text) :
                          /\ frags[n].chunks[1].text[k] = PCT
                                 => IsEscapedAt(frags[n].chunks[1].text, k)
                          /\ frags[n].chunks[1].text[k] \in {LF, CR}
                                 => ~IsEscapedAt(frags[n].chunks[1].text, k)
                          /\ (frags[n].chunks[1].text[k] = BSL
                              /\ ~IsEscapedAt(frags[n].chunks[1].text, k))
                                 => k < Len(frags[n].chunks[1].text)
                   /\ frags[n].maybe # <<>> =>
                          /\ frags[n].consumed[Len(frags[n].chunks[1].text) + 1] = PCT
                          /\ ~IsEscapedAt(frags[n].consumed,
                                          Len(frags[n].chunks[1].text) + 1)
        /\ input = <<BSL, PCT>> =>
               (unconsumed = <<>> /\ chunks = <<Source(<<BSL, PCT>>)>>)
        /\ input = <<BSL, BSL, PCT>> =>
               (unconsumed = <<>>
                /\ chunks = <<Source(<<BSL, BSL>>), Comment("Eol", <<>>)>>)

\* C10: a Source chunk that holds an escaped % was followed by an inline
\* comment on its line.
C10_Witness ==
    /\ pc = "lexed"
    /\ \E n \in 1..Len(frags) :
           /\ IsSourceFragment(frags[n])
           /\ frags[n].maybe # <<>>
           /\ \E k \in 2..Len(frags[n].chunks[1].text) :
                  /\ frags[n].chunks[1].text[k] = PCT
                  /\ frags[n].chunks[1].text[k - 1] = BSL

----------------------------------------------------------------------------
(* Claims about whole documents, indentation and blank lines               *)

\* A directive line that binds src_output to f1, with its line ending.
BindingHead == <<PCT, PCT, PCT, "S1", LF>>

\* The document is the binding line followed by a body without any comment.
IsHeadAndPlainBody(text) ==
    /\ StartsWith(text, BindingHead)
    /\ \A k \in Len(BindingHead) + 1..Len(text) : text[k] # PCT

BodyAfterHead(text) == Drop(text, Len(BindingHead))

\* The text without the line endings at its end.
RECURSIVE WithoutFinalLFs(_)
WithoutFinalLFs(s) ==
    IF s # <<>> /\ s[Len(s)] = LF THEN WithoutFinalLFs(Take(s, Len(s) - 1)) ELSE s

\* C11: for a directive line that binds src_output followed by a body without
\* comments, the run succeeds and what the source destination holds is the
\* body, up to the line endings at the end.
C11_PlainBodyPassesThrough ==
    (/\ pc \notin {"start", "processing"}
     /\ IsHeadAndPlainBody(input)
     /\ ~fs0["f1"].exists)
    => /\ pc # "panicked"
       /\ result = "Ok"
       /\ WithoutFinalLFs(fs["f1"].content) = WithoutFinalLFs(BodyAfterHead(input))

\* The positions of text where a physical line starts.
LineStarts(text) ==
    {k \in 1..Len(text) : k = 1 \/ text[k - 1] = LF}

\* The line that starts at position k is blanks followed by a comment tag.
IsIndentedTagAt(text, k) ==
    /\ text[k] \in {SP, TAB}
    /\ StartsWith(trim_start(Drop(text, k - 1)), <<PCT>>)
    /\ \A j \in k..k + BlanksBefore(Drop(text, k - 1)) : text[j] # LF
    /\ BlanksBefore(Drop(text, k - 1)) =
           Len(Drop(text, k - 1)) - Len(trim_start(Drop(text, k - 1)))

\* The position of the input where fragment n starts.
RECURSIVE FragmentStart(_)
FragmentStart(n) ==
    IF n = 1 THEN 1 ELSE FragmentStart(n - 1) + Len(frags[n - 1].consumed)

\* Position k of the input lies in a start-of-line comment block.
InCommentBlock(k) ==
    \E n \in 1..Len(frags) :
        /\ IsCommentFragment(frags[n])
        /\ FragmentStart(n) <= k
        /\ k < FragmentStart(n) + Len(frags[n].consumed)

\* C12: every physical line made of blanks followed by a comment tag is lexed
\* as a line of a start-of-line comment block, the first line of a block
\* included, and the block's chunks have the kinds of its lines' tags.
C12_IndentedTagIsStartOfLine ==
    pc = "lexed" =>
        /\ \A k \in LineStarts(input) :
               IsIndentedTagAt(input, k) => InCommentBlock(k)
        /\ \A n \in 1..Len(frags) :
               IsCommentFragment(frags[n]) =>
                   KindsOf(frags[n].chunks) = RunKinds(BlockLines(frags[n].consumed))

\* C13: a start-of-line comment block holds no empty or whitespace-only line:
\* every physical line it consumed, but for its final line ending, begins
\* after its indentation with a comment tag.
C13_BlankLineEndsBlock ==
    pc = "lexed" =>
        \A n \in 1..Len(frags) :
            IsCommentFragment(frags[n]) =>
                \A k \in 1..Len(drop_last_empty(SplitLF(frags[n].consumed))) :
                    StartsWith(trim_start(drop_last_empty(SplitLF(frags[n].consumed))[k]),
                               <<PCT>>)

----------------------------------------------------------------------------
(* Claims about the node builder's error and the processor's handles       *)

\* The node the builder makes of a chunk.
NodeFor(chunk) ==
    IF chunk.type = "Source" THEN [type |-> "Source", text |-> chunk.text]
    ELSE CASE chunk.kind = "Directive" -> [type |-> "Directives", text |-> <<>>]
           [] chunk.kind = "Documentation" -> [type |-> "Documentation", text |-> chunk.text]
           [] chunk.kind = "Preserved" -> [type |-> "PreservedComment", text |-> chunk.text]
           [] chunk.kind = "Eol" -> [type |-> "Comment", text |-> <<>>]

SomeDirectiveFails ==
    \E k \in 1..Len(chunks) : IsDirective(chunks[k]) /\ ~IsToml(chunks[k].text)

\* C14: the builder returns one node per chunk, in chunk order, or an error
\* and no node.  When a Directive chunk does not decode, process_document
\* returns Error::DirectivesParseToml and no node has been processed: no
\* handle is bound, no file was created and nothing was written.
C14_AllNodesOrNone ==
    pc # "start" =>
        IF SomeDirectiveFails
        THEN /\ nodes = <<>> /\ pos = 1
             /\ pc \in {"returned", "finished"}
             /\ result = "DirectivesParseToml"
             /\ src_output = None /\ doc_output = None
             /\ fs = fs0
        ELSE /\ Len(nodes) = Len(chunks)
             /\ \A k \in 1..Len(chunks) :
                    /\ nodes[k].type = NodeFor(chunks[k]).type
                    /\ nodes[k].text = NodeFor(chunks[k]).text

\* C14: the error was returned for a document whose first chunk is a
\* Directive that decodes and names a file that does not exist yet.
C14_Witness ==
    /\ pc = "returned" /\ result = "DirectivesParseToml"
    /\ Len(chunks) >= 2
    /\ IsDirective(chunks[1]) /\ IsToml(chunks[1].text)
    /\ GivenFor(chunks[1].text, "src_output") = "f2"
    /\ ~fs["f2"].exists

\* The handle of a field.
HandleOf(field) == IF field = "src" THEN src_output ELSE doc_output

HandleAfter(field) == IF field = "src" THEN src_output' ELSE doc_output'

\* The only step that changes a field's handle is the processing of a
\* Directives node that names the field, and it binds the handle to the file
\* the node names.
HandleKept(field) ==
    /\ HandleOf(field) # None => HandleAfter(field) # None
    /\ HandleAfter(field) # HandleOf(field) =>
           /\ pc = "processing"
           /\ nodes[pos].type = "Directives"
           /\ NamedBy(nodes[pos], field) # None
           /\ HandleAfter(field) = NamedBy(nodes[pos], field)

\* C15: both handles start unbound; a handle that is bound stays bound, and
\* only a Directives node that names a field changes its handle.
C15_HandlesStayBound ==
    /\ [](pc = "start" => (src_output = None /\ doc_output = None))
    /\ [][HandleKept("src") /\ HandleKept("doc")]_vars

\* C15: the open of a directive that names only doc_output failed while
\* src_output was bound, and src_output is still bound.
C15_Witness ==
    /\ pc = "returned" /\ result = "FileOpen"
    /\ nodes[pos].type = "Directives"
    /\ nodes[pos].src_output = None /\ nodes[pos].doc_output # None
    /\ src_output # None /\ doc_output = None

NewFile == [exists |-> TRUE, content |-> <<>>]

\* The step processes a Directives node that names both fields.
NamesBoth ==
    /\ pc = "processing"
    /\ nodes[pos].type = "Directives"
    /\ nodes[pos].src_output # None /\ nodes[pos].doc_output # None

\* C16: a Directives node that names both fields opens src_output first.  When
\* that open fails the step returns the open error and changes nothing; when
\* it succeeds and the open of doc_output fails, the step returns the open
\* error with src_output bound to the new, empty file and doc_output
\* unchanged; when both succeed both handles are bound to new files.
C16_SrcThenDoc ==
    [][NamesBoth =>
        IF fs[nodes[pos].src_output].exists
        THEN /\ pc' = "returned" /\ result' = "FileOpen"
             /\ fs' = fs
             /\ src_output' = src_output /\ doc_output' = doc_output
        ELSE IF fs[nodes[pos].doc_output].exists
                \/ nodes[pos].doc_output = nodes[pos].src_output
        THEN /\ pc' = "returned" /\ result' = "FileOpen"
             /\ fs' = [fs EXCEPT ![nodes[pos].src_output] = NewFile]
             /\ src_output' = nodes[pos].src_output
             /\ doc_output' = doc_output
        ELSE /\ result' # "FileOpen"
             /\ fs' = [fs EXCEPT ![nodes[pos].src_output] = NewFile,
                                 ![nodes[pos].doc_output] = NewFile]
             /\ src_output' = nodes[pos].src_output
             /\ doc_output' = nodes[pos].doc_output]_vars

\* C16: the open of doc_output failed after src_output had been opened under
\* another name.
C16_Witness ==
    /\ pc = "returned" /\ result = "FileOpen"
    /\ nodes[pos].type = "Directives"
    /\ nodes[pos].src_output = "f2" /\ nodes[pos].doc_output = "f1"
    /\ fs0["f1"].exists /\ ~fs0["f2"].exists
    /\ src_output = "f2" /\ fs["f2"] = NewFile
    /\ doc_output = None /\ fs["f1"] = fs0["f1"]

====
